---- MODULE Spec2Model ----
(***************************************************************************)
(* A model of experiment_launcher.Launcher (src/experiment_launcher/       *)
(* launcher.py): the experiment-set builder (add_experiment,               *)
(* add_default_params), the dispatcher (run, _run_joblib, _run_slurm), the *)
(* generated SLURM array script with run_experiment, and the pure string   *)
(* routines (_convert_to_command_line, _generate_results_dir).             *)
(*                                                                         *)
(* Python strings are sequences of one-character strings, so that str(),   *)
(* str.replace, os.path.join and word splitting are computed, not assumed. *)
(* A dict is the sequence of its entries [k, v] in insertion order.        *)
(***************************************************************************)
EXTENDS Integers, Sequences, FiniteSets, TLC

(***************************************************************************)
(* Bounds of the model.                                                    *)
(***************************************************************************)
\* longest experiment list the builder is driven to
MaxExps == 2
\* largest n_exp given to the constructor
MaxNExp == 2
\* largest joblib_n_jobs given to the constructor
MaxJobs == 2
\* largest max_seeds given to the constructor
MaxSeedsArg == 3
\* largest integer parameter value of the pure-function inputs
MaxIntValue == 11

(***************************************************************************)
(* Python values and strings                                               *)
(***************************************************************************)
Range(s) == {s[i] : i \in DOMAIN s}

RECURSIVE Concat(_)
\* ''.join(ss) for a sequence of strings
Concat(ss) == IF ss = <<>> THEN <<>> ELSE Head(ss) \o Concat(Tail(ss))

StartsWith(s, p) == Len(p) <= Len(s) /\ SubSeq(s, 1, Len(p)) = p

EndsWith(s, p) == Len(p) <= Len(s) /\ SubSeq(s, Len(s) - Len(p) + 1, Len(s)) = p

RECURSIVE str_replace(_, _, _)
\* s.replace(old, new), old non-empty: leftmost non-overlapping occurrences
str_replace(s, old, new) ==
    IF s = <<>> THEN <<>>
    ELSE IF StartsWith(s, old)
         THEN new \o str_replace(SubSeq(s, Len(old) + 1, Len(s)), old, new)
         ELSE <<Head(s)>> \o str_replace(Tail(s), old, new)

RECURSIVE str_split(_, _)
\* s.split(sep) for a one-character sep: the pieces between the separators
str_split(s, sep) ==
    IF \A i \in DOMAIN s : s[i] # sep THEN <<s>>
    ELSE LET i == CHOOSE j \in DOMAIN s : s[j] = sep /\ \A h \in 1..(j - 1) : s[h] # sep
         IN  <<SubSeq(s, 1, i - 1)>> \o str_split(SubSeq(s, i + 1, Len(s)), sep)

Digits == <<"0", "1", "2", "3", "4", "5", "6", "7", "8", "9">>

RECURSIVE int_str(_)
\* str(n) of an int n >= 0
int_str(n) == IF n < 10 THEN <<Digits[n + 1]>>
              ELSE int_str(n \div 10) \o <<Digits[(n % 10) + 1]>>

\* The scalar values of a parameter record: bool, int and str.
BoolV(x) == [t |-> "bool", b |-> x, n |-> 0, s |-> <<>>]
IntV(x) == [t |-> "int", b |-> FALSE, n |-> x, s |-> <<>>]
StrV(x) == [t |-> "str", b |-> FALSE, n |-> 0, s |-> x]

\* isinstance(value, bool)
isinstance_bool(v) == v.t = "bool"

\* str(value)
py_str(v) ==
    CASE v.t = "bool" -> IF v.b THEN <<"T", "r", "u", "e">> ELSE <<"F", "a", "l", "s", "e">>
      [] v.t = "int" -> int_str(v.n)
      [] OTHER -> v.s

\* repr(value): a str is quoted
py_repr(v) == IF v.t = "str" THEN <<"'">> \o v.s \o <<"'">> ELSE py_str(v)

(***************************************************************************)
(* Python dicts: entries in insertion order                                *)
(***************************************************************************)
Entry(key, value) == [k |-> key, v |-> value]

dict_keys(d) == {d[i].k : i \in DOMAIN d}

\* d[key], key in d
dict_get(d, key) == d[CHOOSE i \in DOMAIN d : d[i].k = key].v

\* d[key] = value: an existing key keeps its place
dict_setitem(d, key, value) ==
    IF key \in dict_keys(d)
    THEN [i \in DOMAIN d |-> IF d[i].k = key THEN Entry(key, value) ELSE d[i]]
    ELSE Append(d, Entry(key, value))

RECURSIVE dict_update(_, _)
\* d.update(e)
dict_update(d, e) ==
    IF e = <<>> THEN d
    ELSE dict_update(dict_setitem(d, Head(e).k, Head(e).v), Tail(e))

RECURSIVE JoinWith(_, _)
\* sep.join(ss)
JoinWith(ss, sep) ==
    IF ss = <<>> THEN <<>>
    ELSE IF Len(ss) = 1 THEN ss[1]
    ELSE ss[1] \o sep \o JoinWith(Tail(ss), sep)

\* str(d) of a dict with str keys: {'a': 1, 'b_c': True}
dict_str(d) ==
    <<"{">>
    \o JoinWith([i \in DOMAIN d |-> <<"'">> \o d[i].k \o <<"'", ":", " ">> \o py_repr(d[i].v)],
                <<",", " ">>)
    \o <<"}">>

\* os.path.join(a, b) of posixpath
os_path_join(a, b) ==
    IF StartsWith(b, <<"/">>) THEN b
    ELSE IF a = <<>> \/ EndsWith(a, <<"/">>) THEN a \o b
    ELSE a \o <<"/">> \o b

(***************************************************************************)
(* Launcher: the pure routines                                             *)
(***************************************************************************)
\* None, and a value that is not None
None == <<>>
Some(x) == <<x>>

RECURSIVE _generate_results_dir_flat(_, _, _)
\* a flat layout: every entry appended to the one directory name
_generate_results_dir_flat(results_dir, exp, seed) ==
    IF exp # <<>>
    THEN LET subfolder == Head(exp).k \o <<"_">> \o py_str(Head(exp).v)
         IN  _generate_results_dir_flat(results_dir \o <<"_">> \o subfolder, Tail(exp), seed)
    ELSE IF seed # None THEN os_path_join(results_dir, int_str(seed[1]))
    ELSE results_dir

RECURSIVE _generate_results_dir(_, _, _)
_generate_results_dir(results_dir, exp, seed) ==
    IF exp # <<>>
    THEN LET subfolder == Head(exp).k \o <<"_">> \o py_str(Head(exp).v)
         IN  _generate_results_dir(os_path_join(results_dir, subfolder), Tail(exp), seed)
    ELSE IF seed # None THEN os_path_join(results_dir, int_str(seed[1]))
    ELSE results_dir

\* a conversion that treats a bool like any other value: --flag True, --flag False
new_command_any_value(key, value, use_underscore_argparse) ==
    (IF use_underscore_argparse
     THEN <<"-", "-">> \o key \o <<" ">>
     ELSE <<"-", "-">> \o str_replace(key, <<"_">>, <<"-">>) \o <<" ">>)
    \o py_str(value) \o <<" ">>

\* one key of _convert_to_command_line: the text added to command_line
new_command(key, value, use_underscore_argparse) ==
    LET flag == IF use_underscore_argparse
                THEN <<"-", "-">> \o key \o <<" ">>
                ELSE <<"-", "-">> \o str_replace(key, <<"_">>, <<"-">>) \o <<" ">>
    IN  IF isinstance_bool(value)
        THEN (IF value.b THEN flag ELSE <<>>)
        ELSE flag \o py_str(value) \o <<" ">>

RECURSIVE _convert_to_command_line(_, _)
_convert_to_command_line(exp, use_underscore_argparse) ==
    IF exp = <<>> THEN <<>>
    ELSE new_command(Head(exp).k, Head(exp).v, use_underscore_argparse)
         \o _convert_to_command_line(Tail(exp), use_underscore_argparse)

(***************************************************************************)
(* The job script and its callable (src/examples/test.py)                  *)
(***************************************************************************)
K_a == <<"a">>
K_b_c == <<"b", "_", "c">>
K_boolean == <<"b", "o", "o", "l", "e", "a", "n">>
K_default == <<"d", "e", "f", "a", "u", "l", "t">>
K_seed == <<"s", "e", "e", "d">>
K_results_dir == <<"r", "e", "s", "u", "l", "t", "s", "_", "d", "i", "r">>
K_joblib_n_jobs == <<"j", "o", "b", "l", "i", "b", "_", "n", "_", "j", "o", "b", "s">>
K_joblib_n_seeds == <<"j", "o", "b", "l", "i", "b", "_", "n", "_", "s", "e", "e", "d", "s">>

\* def experiment(a=1, b_c=1, boolean=True, default='dft', seed=0, results_dir='/tmp')
experiment_signature ==
    << [k |-> K_a, has_default |-> TRUE, default |-> IntV(1)],
       [k |-> K_b_c, has_default |-> TRUE, default |-> IntV(1)],
       [k |-> K_boolean, has_default |-> TRUE, default |-> BoolV(TRUE)],
       [k |-> K_default, has_default |-> TRUE, default |-> StrV(<<"d", "f", "t">>)],
       [k |-> K_seed, has_default |-> TRUE, default |-> IntV(0)],
       [k |-> K_results_dir, has_default |-> TRUE, default |-> StrV(<<"/", "t", "m", "p">>)] >>

RECURSIVE get_default_params(_)
\* the parameters of the signature that have a default, with it
get_default_params(signature) ==
    IF signature = <<>> THEN <<>>
    ELSE IF Head(signature).has_default
         THEN <<Entry(Head(signature).k, Head(signature).default)>>
              \o get_default_params(Tail(signature))
         ELSE get_default_params(Tail(signature))

(***************************************************************************)
(* Launcher: construction                                                  *)
(***************************************************************************)
\* exp_name, and base_dir=None
exp_name == <<"x", "p">>
base_dir == <<".", "/", "l", "o", "g", "s">>

\* self._exp_dir_local; self._exp_dir_slurm is the same directory on a host
\* without /work/scratch/$USER
_exp_dir_local == os_path_join(base_dir, exp_name)
_exp_dir_slurm == _exp_dir_local

\* the fields Launcher.__init__ sets from n_exp, joblib_n_jobs (None or > 0),
\* max_seeds, randomize_seeds and use_underscore_argparse
Launcher__init__(n_exp, joblib_n_jobs, max_seeds, randomize_seeds, use_underscore_argparse) ==
    [ n_exp |-> n_exp,
      joblib_n_jobs |-> IF joblib_n_jobs = None THEN Some(1) ELSE joblib_n_jobs,
      max_seeds |-> IF n_exp >= max_seeds THEN n_exp + 1 ELSE max_seeds,
      randomize_seeds |-> randomize_seeds,
      use_underscore_argparse |-> use_underscore_argparse,
      experiment_list |-> <<>>,    \* the parameter records, in insertion order
      default_params |-> <<>> ]    \* the default record

(***************************************************************************)
(* Launcher: dispatch.  self is the Launcher object.                       *)
(***************************************************************************)
\* np.arange(n)
np_arange(n) == [i \in 1..n |-> i - 1]

\* a choice with replacement: any n_exp elements of 1..max_seeds-1
np_random_choice_replace(max_seeds, n_exp) == [1..n_exp -> 1..(max_seeds - 1)]

\* The arrays np.random.choice(np.arange(1, max_seeds), size=n_exp, replace=False)
\* can return: n_exp pairwise different elements of 1..max_seeds-1, in any order.
np_random_choice(max_seeds, n_exp) ==
    {c \in [1..n_exp -> 1..(max_seeds - 1)] : \A i, j \in 1..n_exp : c[i] = c[j] => i = j}

\* the values seeds can take in _generate_exp_params
seeds_drawn(self) ==
    IF self.randomize_seeds THEN np_random_choice(self.max_seeds, self.n_exp)
    ELSE {np_arange(self.n_exp)}

\* itertools.product(xs, ys): the pairs, the last component varying fastest
product(xs, ys) ==
    [i \in 1..(Len(xs) * Len(ys)) |-> <<xs[((i - 1) \div Len(ys)) + 1], ys[((i - 1) % Len(ys)) + 1]>>]

\* the loop body of _generate_exp_params: params_dict after one (exp, seed)
exp_params_step(params_dict, exp, seed) ==
    LET p1 == dict_update(params_dict, exp)
        p2 == dict_setitem(p1, K_seed, IntV(seed))
    IN  dict_setitem(p2, K_results_dir,
                     StrV(_generate_results_dir(_exp_dir_local, exp, Some(seed))))

RECURSIVE exp_params_loop(_, _)
\* what the generator yields over the pairs todo: params_dict, the one dict it
\* keeps updating, as it is at each yield
exp_params_loop(params_dict, todo) ==
    IF todo = <<>> THEN <<>>
    ELSE LET p == exp_params_step(params_dict, Head(todo)[1], Head(todo)[2])
         IN  <<p>> \o exp_params_loop(p, Tail(todo))

\* the dicts _generate_exp_params yields, for the seeds it drew
_generate_exp_params(self, params_dict, seeds) ==
    exp_params_loop(dict_update(params_dict, self.default_params),
                    product(self.experiment_list, seeds))

\* the line _run_joblib prints for (exp, i) in test mode
test_line(self, exp, i) ==
    LET default_params ==
            IF self.default_params # <<>>
            THEN str_replace(str_replace(str_replace(str_replace(
                     dict_str(self.default_params),
                     <<"{">>, <<",", " ">>), <<"}">>, <<",", " ">>), <<":", " ">>, <<"=">>),
                     <<"'">>, <<>>)
            ELSE <<>>
        results_dir == _generate_results_dir(_exp_dir_local, exp, None)
        params == str_replace(str_replace(str_replace(str_replace(
                     dict_str(exp),
                     <<"{">>, <<"(">>), <<"}">>, <<>>), <<":", " ">>, <<"=">>), <<"'">>, <<>>)
    IN  <<"e", "x", "p", "e", "r", "i", "m", "e", "n", "t">> \o params \o default_params
        \o <<"s", "e", "e", "d", "=">> \o int_str(i)
        \o <<",", " ", "r", "e", "s", "u", "l", "t", "s", "_", "d", "i", "r", "=">>
        \o results_dir \o <<")">>

\* _run_joblib: the lines printed and the keyword arguments of the calls of
\* experiment, one dict per call (**params copies the yielded dict)
_run_joblib(self, test, seeds) ==
    IF test
    THEN [ printed |-> LET todo == product(self.experiment_list, np_arange(self.n_exp))
                       IN  [j \in DOMAIN todo |-> test_line(self, todo[j][1], todo[j][2])],
           calls |-> <<>> ]
    ELSE [ printed |-> <<>>,
           calls |-> _generate_exp_params(self, get_default_params(experiment_signature), seeds) ]

\* generate_slurm: of the script text, the array directive "#SBATCH -a first-last"
\* and the argument given to --joblib-n-seeds
generate_slurm(self) ==
    LET N_EXPS == self.n_exp
        N_JOBS == self.joblib_n_jobs[1]
    IN  [ array_first |-> 0,
          array_last |-> IF self.joblib_n_jobs = None THEN self.n_exp - 1
                         ELSE self.n_exp \div self.joblib_n_jobs[1],
          joblib_n_seeds |-> IF N_EXPS < N_JOBS THEN "$2"
                             ELSE IF N_EXPS % N_JOBS = 0 THEN "$3"
                             ELSE "${JOBLIB_SEEDS}" ]

\* save_slurm: the path of the script file
script_path ==
    os_path_join(_exp_dir_slurm,
                 <<"s", "l", "u", "r", "m", "_">> \o exp_name \o <<".", "s", "h">>)

\* the command _run_slurm builds for exp
slurm_command(self, exp) ==
    LET args1 == _convert_to_command_line(exp, self.use_underscore_argparse)
        command_line_arguments ==
            IF self.default_params # <<>>
            THEN args1 \o <<" ">>
                 \o _convert_to_command_line(self.default_params, self.use_underscore_argparse)
            ELSE args1
        results_dir == _generate_results_dir(_exp_dir_slurm, exp, None)
    IN  <<"s", "b", "a", "t", "c", "h", " ">> \o script_path \o <<" ">> \o results_dir
        \o <<" ">> \o int_str(self.n_exp) \o <<" ">> \o int_str(self.joblib_n_jobs[1])
        \o <<" ">> \o command_line_arguments

\* a _run_slurm that submits every record once per replication
_run_slurm_per_task(self, test) ==
    LET todo == product(self.experiment_list, np_arange(self.n_exp))
        commands == [i \in DOMAIN todo |-> slurm_command(self, todo[i][1])]
    IN  [ printed |-> IF test THEN commands ELSE <<>>,
          executed |-> IF test THEN <<>> ELSE commands ]

\* _run_slurm: the commands printed, or given to os.system
_run_slurm(self, test) ==
    LET commands == [i \in DOMAIN self.experiment_list |->
                        slurm_command(self, self.experiment_list[i])]
    IN  [ printed |-> IF test THEN commands ELSE <<>>,
          executed |-> IF test THEN <<>> ELSE commands ]

\* a run that starts the builder afresh, defaults included
clear_experiment_list_and_defaults(self) ==
    [self EXCEPT !.experiment_list = <<>>, !.default_params = <<>>]

\* run, its last statement: the Launcher after self._experiment_list = list()
clear_experiment_list(self) == [self EXCEPT !.experiment_list = <<>>]

\* run: the Launcher afterwards and what the call printed, called, executed
\* and wrote (the script file, in cluster mode)
run(self, local, test, seeds) ==
    LET joblib == _run_joblib(self, test, seeds)
        slurm == _run_slurm(self, test)
    IN  [ self |-> clear_experiment_list(self),
          out |-> [ local |-> local,
                    test |-> test,
                    before |-> self,
                    printed |-> IF local THEN joblib.printed ELSE slurm.printed,
                    calls |-> IF local THEN joblib.calls ELSE <<>>,
                    executed |-> IF local THEN <<>> ELSE slurm.executed,
                    script |-> IF local THEN None ELSE Some(generate_slurm(self)) ] ]

(***************************************************************************)
(* The submitted array job: the script, parse_args and run_experiment      *)
(***************************************************************************)
RECURSIVE int_parse(_)
\* int(s) of a string of digits
int_parse(s) ==
    IF s = <<>> THEN 0
    ELSE 10 * int_parse(SubSeq(s, 1, Len(s) - 1))
         + ((CHOOSE d \in 1..10 : Digits[d] = s[Len(s)]) - 1)

\* the words the shell splits a command into
shell_words(command) == SelectSeq(str_split(command, " "), LAMBDA w : w # <<>>)

\* the JOBLIB_SEEDS the script computes for $SLURM_ARRAY_TASK_ID = task_id
JOBLIB_SEEDS(task_id, a2, a3) ==
    LET aux == (task_id + 1) * a3
    IN  IF aux <= a2 THEN a3 ELSE a2 % a3

\* the argument vector of the python call the script makes for array index
\* task_id, given the words of the sbatch command (script, $1, $2, $3, ${@:4})
script_argv(self, script, words, task_id) ==
    LET a1 == words[3]
        a2 == words[4]
        a3 == words[5]
        rest == SubSeq(words, 6, Len(words))
        n_seeds == CASE script.joblib_n_seeds = "$2" -> a2
                     [] script.joblib_n_seeds = "$3" -> a3
                     [] OTHER -> int_str(JOBLIB_SEEDS(task_id, int_parse(a2), int_parse(a3)))
    IN  rest
        \o << <<"-", "-">> \o K_seed, int_str(task_id) >>
        \o << IF self.use_underscore_argparse
              THEN <<"-", "-">> \o K_results_dir
              ELSE <<"-", "-", "r", "e", "s", "u", "l", "t", "s", "-", "d", "i", "r">>,
              a1 >>
        \o << <<"-", "-">> \o str_replace(K_joblib_n_jobs, <<"_">>, <<"-">>), a3 >>
        \o << <<"-", "-">> \o str_replace(K_joblib_n_seeds, <<"_">>, <<"-">>), n_seeds >>

RECURSIVE parse_args(_, _)
\* argparse over argv, onto the namespace args: an option's destination is its
\* name with '-' for '_'; an option given again replaces the value kept
parse_args(args, argv) ==
    IF argv = <<>> THEN args
    ELSE IF ~StartsWith(Head(argv), <<"-", "-">>) THEN parse_args(args, Tail(argv))
    ELSE LET dest == str_replace(SubSeq(Head(argv), 3, Len(Head(argv))), <<"-">>, <<"_">>)
         IN  IF Len(argv) >= 2 /\ ~StartsWith(argv[2], <<"-", "-">>)
             THEN parse_args(dict_setitem(args, dest, StrV(argv[2])), SubSeq(argv, 3, Len(argv)))
             ELSE parse_args(dict_setitem(args, dest, BoolV(TRUE)), Tail(argv))

\* run_experiment: the seeds it calls func with
run_experiment(args) ==
    LET joblib_n_jobs == int_parse(dict_get(args, K_joblib_n_jobs).s)
        joblib_n_seeds == int_parse(dict_get(args, K_joblib_n_seeds).s)
        initial_seed == int_parse(dict_get(args, K_seed).s) * joblib_n_jobs
    IN  [i \in 1..joblib_n_seeds |-> initial_seed + i - 1]

\* the seeds array index task_id of the job submitted by command runs
array_task(self, script, command, task_id) ==
    run_experiment(parse_args(<<>>, script_argv(self, script, shell_words(command), task_id)))

(***************************************************************************)
(* State                                                                   *)
(***************************************************************************)
VARIABLES
    self,        \* the Launcher object
    op,          \* the operation that ran last
    out,         \* what that operation printed, called, executed and wrote
    array_done,  \* the array indices of the first submitted job that have run
    array_ran,   \* the seeds run_experiment ran in them, in the order run
    arg,         \* the input of a routine applied on its own
    ret          \* the routine's result

vars == <<self, op, out, array_done, array_ran, arg, ret>>

\* an operation that prints, calls, executes and writes nothing
NoOut ==
    [ local |-> FALSE, test |-> FALSE, before |-> Launcher__init__(1, None, 1, FALSE, FALSE),
      printed |-> <<>>, calls |-> <<>>, executed |-> <<>>, script |-> None ]

NoArg == [exp |-> <<>>, use_underscore_argparse |-> FALSE, results_dir |-> <<>>, seed |-> None]

(***************************************************************************)
(* Inputs                                                                  *)
(***************************************************************************)
\* the keyword arguments given to add_experiment: a alone or a and b_c,
\* each 1 or 2
Kwargs ==
    LET V == {IntV(1), IntV(2)}
    IN  {<<Entry(K_a, v)>> : v \in V} \cup {<<Entry(K_a, v), Entry(K_b_c, w)>> : v \in V, w \in V}

\* the keyword arguments given to add_default_params: a alone, 1 or 2, or
\* a = 1 and b_c = 2
DefaultKwargs ==
    {<<Entry(K_a, IntV(1))>>, <<Entry(K_a, IntV(2))>>,
     <<Entry(K_a, IntV(1)), Entry(K_b_c, IntV(2))>>}

\* joblib_n_jobs: None or 1..MaxJobs
JobsArgs == {None} \cup {Some(j) : j \in 1..MaxJobs}

\* the inputs of the routines applied on their own: records of up to two
\* entries, in either order, of bool, int and str values
PureValues ==
    {BoolV(TRUE), BoolV(FALSE)} \cup {IntV(n) : n \in {0, 1, MaxIntValue}}
    \cup {StrV(<<"p">>), StrV(<<"p", " ", "q">>), StrV(<<"p", "/", "q">>)}

PureRecords ==
    {<<>>} \cup {<<Entry(k, v)>> : k \in {K_a, K_b_c}, v \in PureValues}
    \cup {<<Entry(K_a, v), Entry(K_b_c, w)>> : v \in PureValues, w \in PureValues}
    \cup {<<Entry(K_b_c, w), Entry(K_a, v)>> : v \in PureValues, w \in PureValues}

PureRoots == {<<>>, _exp_dir_local, <<"/", "w", "/">>}

PureSeeds == {None, Some(0), Some(MaxIntValue)}

(***************************************************************************)
(* Operations                                                              *)
(***************************************************************************)
Constructed(n_exp, joblib_n_jobs, max_seeds, randomize_seeds, use_underscore_argparse) ==
    /\ self = Launcher__init__(n_exp, joblib_n_jobs, max_seeds, randomize_seeds,
                               use_underscore_argparse)
    /\ op = "__init__"
    /\ out = NoOut
    /\ array_done = {}
    /\ array_ran = <<>>
    /\ arg = NoArg
    /\ ret = <<>>

\* add_experiment(**kwargs)
add_experiment(kwargs) ==
    /\ Len(self.experiment_list) < MaxExps
    /\ self' = [self EXCEPT !.experiment_list = Append(@, kwargs)]
    /\ op' = "add_experiment"
    /\ out' = NoOut
    /\ array_done' = {}
    /\ array_ran' = <<>>
    /\ UNCHANGED <<arg, ret>>

\* add_default_params(**kwargs)
add_default_params(kwargs) ==
    /\ self' = [self EXCEPT !.default_params = dict_update(@, kwargs)]
    /\ op' = "add_default_params"
    /\ out' = NoOut
    /\ array_done' = {}
    /\ array_ran' = <<>>
    /\ UNCHANGED <<arg, ret>>

\* run(local, test)
Run(local, test) ==
    \E seeds \in (IF local /\ ~test THEN seeds_drawn(self) ELSE {<<>>}) :
        LET r == run(self, local, test, seeds)
        IN  /\ self' = r.self
            /\ op' = "run"
            /\ out' = r.out
            /\ array_done' = {}
            /\ array_ran' = <<>>
            /\ UNCHANGED <<arg, ret>>

\* the scheduler runs one array index of the first job submitted by the last run
ArrayTask ==
    /\ op \in {"run", "array_task"}
    /\ out.executed # <<>>
    /\ \E task_id \in (out.script[1].array_first..out.script[1].array_last) \ array_done :
          /\ array_done' = array_done \cup {task_id}
          /\ array_ran' = array_ran \o array_task(out.before, out.script[1], out.executed[1], task_id)
    /\ op' = "array_task"
    /\ UNCHANGED <<self, out, arg, ret>>

\* _convert_to_command_line(exp, use_underscore_argparse) on its own
ConvertToCommandLine ==
    /\ op = "__init__"
    /\ ret' = _convert_to_command_line(arg.exp, arg.use_underscore_argparse)
    /\ op' = "_convert_to_command_line"
    /\ UNCHANGED <<self, out, array_done, array_ran, arg>>

\* _generate_results_dir(results_dir, exp, seed) on its own
GenerateResultsDir ==
    /\ op = "__init__"
    /\ ret' = _generate_results_dir(arg.results_dir, arg.exp, arg.seed)
    /\ op' = "_generate_results_dir"
    /\ UNCHANGED <<self, out, array_done, array_ran, arg>>

(***************************************************************************)
(* Specifications                                                          *)
(***************************************************************************)
\* The builder and the dispatcher in all four modes, seeds in sequence.
Init ==
    \E n_exp \in 1..MaxNExp, joblib_n_jobs \in JobsArgs :
        Constructed(n_exp, joblib_n_jobs, MaxSeedsArg, FALSE, FALSE)

Next ==
    \/ \E kwargs \in Kwargs : add_experiment(kwargs)
    \/ \E kwargs \in DefaultKwargs : add_default_params(kwargs)
    \/ \E local \in BOOLEAN, test \in BOOLEAN : Run(local, test)

Spec == Init /\ [][Next]_vars

\* The builder and local dispatch, seeds in sequence or drawn at random.
InitLocal ==
    \E n_exp \in 1..MaxNExp, max_seeds \in 1..MaxSeedsArg, randomize_seeds \in BOOLEAN :
        Constructed(n_exp, None, max_seeds, randomize_seeds, FALSE)

NextLocal ==
    \/ \E kwargs \in Kwargs : add_experiment(kwargs)
    \/ \E kwargs \in DefaultKwargs : add_default_params(kwargs)
    \/ \E test \in BOOLEAN : Run(TRUE, test)

SpecLocal == InitLocal /\ [][NextLocal]_vars

\* Cluster dispatch followed by the array job of the first submitted record.
InitArray ==
    \E n_exp \in 1..(MaxNExp + 1), joblib_n_jobs \in JobsArgs :
        Constructed(n_exp, joblib_n_jobs, MaxSeedsArg, FALSE, FALSE)

NextArray ==
    \/ \E kwargs \in Kwargs : add_experiment(kwargs)
    \/ Run(FALSE, FALSE)
    \/ ArrayTask

SpecArray == InitArray /\ [][NextArray]_vars

\* The two string routines applied on their own to a drawn input.
InitPure ==
    /\ self = Launcher__init__(1, None, 1, FALSE, FALSE)
    /\ op = "__init__"
    /\ out = NoOut
    /\ array_done = {}
    /\ array_ran = <<>>
    /\ arg \in [exp : PureRecords, use_underscore_argparse : BOOLEAN,
                results_dir : PureRoots, seed : PureSeeds]
    /\ ret = <<>>

NextPure ==
    \/ ConvertToCommandLine
    \/ GenerateResultsDir

SpecPure == InitPure /\ [][NextPure]_vars

(***************************************************************************)
(* Properties                                                              *)
(***************************************************************************)
\* the options argparse keeps from the words that follow $3 in a command
command_options(command) ==
    LET words == shell_words(command)
    IN  parse_args(<<>>, SubSeq(words, 6, Len(words)))

\* the parser keeps for key what a record giving it this value asks for: the
\* flag set (True) or not given (False), or the value's text
option_in_effect(options, key, value) ==
    IF isinstance_bool(value)
    THEN value.b <=> key \in dict_keys(options)
    ELSE key \in dict_keys(options) /\ dict_get(options, key) = StrV(py_str(value))

\* the calls of experiment made for the i-th record of a live local run
calls_of_record(o, i) ==
    SubSeq(o.calls, (i - 1) * o.before.n_exp + 1, i * o.before.n_exp)

\* C1: run, in any of the four modes, leaves the experiment list empty and
\* the default record (and every other field) as it was; a run that follows
\* a run directly prints, calls and executes nothing; an experiment added
\* after a run meets the defaults given before that run.
C1_RunClearsListKeepsDefaults ==
    [][ /\ op' = "run" =>
              /\ self'.experiment_list = <<>>
              /\ self' = [self EXCEPT !.experiment_list = <<>>]
              /\ out'.before = self
        /\ (op = "run" /\ op' = "run") =>
              /\ out'.printed = <<>>
              /\ out'.calls = <<>>
              /\ out'.executed = <<>>
        /\ (op = "run" /\ op' = "add_experiment") =>
              self'.default_params = out.before.default_params ]_vars

\* C1, its case: a run of a list of two records with defaults set has returned
C1_Witness ==
    /\ op = "run"
    /\ Len(out.before.experiment_list) = 2
    /\ out.before.default_params # <<>>
    /\ self.experiment_list = <<>>
    /\ self.default_params = out.before.default_params

\* C3 as claimed: for a key that the default record and a parameter record
\* both give, the record's value is the one in effect for the record's tasks:
\* in the calls of a live local run, and for the argument parser of the job
\* that a cluster run's command submits (printed or executed).
C3_RecordOverridesDefault ==
    op = "run" =>
        \A i \in DOMAIN out.before.experiment_list :
            LET exp == out.before.experiment_list[i]
            IN  \A key \in dict_keys(exp) \cap dict_keys(out.before.default_params) :
                    /\ (out.local /\ ~out.test) =>
                          \A j \in DOMAIN calls_of_record(out, i) :
                              dict_get(calls_of_record(out, i)[j], key) = dict_get(exp, key)
                    /\ ~out.local =>
                          option_in_effect(
                              command_options((out.printed \o out.executed)[i]),
                              key, dict_get(exp, key))

\* C5: a cluster run builds one sbatch command per record, in insertion
\* order, whatever n_exp and joblib_n_jobs are; in test mode all are printed
\* and none executed, otherwise each is executed once and none printed.
C5_OneCommandPerRecord ==
    (op = "run" /\ ~out.local) =>
        LET exps == out.before.experiment_list
            commands == IF out.test THEN out.printed ELSE out.executed
        IN  /\ Len(commands) = Len(exps)
            /\ \A i \in DOMAIN exps :
                  /\ StartsWith(commands[i], <<"s", "b", "a", "t", "c", "h", " ">>)
                  /\ commands[i] = slurm_command(out.before, exps[i])
            /\ out.test => out.executed = <<>>
            /\ ~out.test => out.printed = <<>>
            /\ out.calls = <<>>

\* C5, its case: two different records, two replications, commands executed
C5_Witness ==
    /\ op = "run"
    /\ ~out.local /\ ~out.test
    /\ out.before.n_exp = 2
    /\ out.before.joblib_n_jobs = Some(2)
    /\ Len(out.executed) = 2
    /\ out.executed[1] # out.executed[2]

\* C7 as claimed: the script declares the array range 0..(n_exp - 1)
C7_ArrayRange ==
    (op = "run" /\ ~out.local) =>
        /\ out.script[1].array_first = 0
        /\ out.script[1].array_last = out.before.n_exp - 1

\* the mapping experiment is to receive for record exp and seed: its own
\* defaults, overlaid by the default record, by exp, by seed and results_dir
merged_params(launcher, exp, seed) ==
    dict_update(
        dict_update(dict_update(get_default_params(experiment_signature),
                                launcher.default_params), exp),
        << Entry(K_seed, IntV(seed)),
           Entry(K_results_dir, StrV(_generate_results_dir(_exp_dir_local, exp, Some(seed)))) >>)

\* C2 as claimed: in a live local run the keyword arguments of every call
\* made for record r are the callable's defaults overlaid by the default
\* record, by r and by {seed, results_dir}, whatever the other records are.
C2_TaskParamsFromOwnRecord ==
    (op = "run" /\ out.local /\ ~out.test) =>
        \A i \in DOMAIN out.before.experiment_list :
            \A j \in DOMAIN calls_of_record(out, i) :
                LET call == calls_of_record(out, i)[j]
                IN  Range(call) = Range(merged_params(out.before, out.before.experiment_list[i],
                                                      dict_get(call, K_seed).n))

\* what a printed line "experiment(k=v, ..., k=v)" shows: its k=v pairs
line_pairs(line) ==
    LET body == SubSeq(line, Len(<<"e", "x", "p", "e", "r", "i", "m", "e", "n", "t", "(">>) + 1,
                       Len(line) - 1)
        pieces == str_split(body, ",")
        strip(piece) == IF StartsWith(piece, <<" ">>) THEN Tail(piece) ELSE piece
        pair(piece) == LET kv == str_split(strip(piece), "=")
                       IN  [k |-> kv[1], v |-> JoinWith(Tail(kv), <<"=">>)]
    IN  [i \in DOMAIN pieces |-> pair(pieces[i])]

\* the line shows the call: every pair it shows names an argument of the call
\* with the text of its value, seed and results_dir among them
line_shows_call(line, call) ==
    LET pairs == line_pairs(line)
    IN  /\ StartsWith(line, <<"e", "x", "p", "e", "r", "i", "m", "e", "n", "t", "(">>)
        /\ EndsWith(line, <<")">>)
        /\ \A i \in DOMAIN pairs :
              /\ pairs[i].k \in dict_keys(call)
              /\ pairs[i].v = py_str(dict_get(call, pairs[i].k))
        /\ {K_seed, K_results_dir} \subseteq {pairs[i].k : i \in DOMAIN pairs}

\* C4 as claimed: a local test run prints len(experiment list) * n_exp lines,
\* one per task of the live run on the same builder state (whatever seeds
\* that run draws), each showing the parameters, the seed and the
\* results_dir the callable receives for that task.
C4_TestRunShowsLiveCalls ==
    (op = "run" /\ out.local /\ out.test) =>
        /\ Len(out.printed) = Len(out.before.experiment_list) * out.before.n_exp
        /\ \A seeds \in seeds_drawn(out.before) :
              LET live == _run_joblib(out.before, FALSE, seeds).calls
              IN  /\ Len(live) = Len(out.printed)
                  /\ \A i \in DOMAIN live : line_shows_call(out.printed[i], live[i])

\* the seeds of the calls made for the i-th record, in call order
seeds_of_record(o, i) ==
    [j \in DOMAIN calls_of_record(o, i) |-> dict_get(calls_of_record(o, i)[j], K_seed).n]

\* C6: max_seeds exceeds n_exp whatever the constructor was given, and in a
\* live local run every record gets n_exp calls whose seeds are 0..n_exp-1
\* when seeds are in sequence, and n_exp pairwise different integers of
\* 1..max_seeds-1 when they are drawn at random.
C6_SeedsOfRecord ==
    /\ self.max_seeds > self.n_exp
    /\ (op = "run" /\ out.local /\ ~out.test) =>
          \A i \in DOMAIN out.before.experiment_list :
              LET seeds == seeds_of_record(out, i)
              IN  /\ Len(seeds) = out.before.n_exp
                  /\ \A j, h \in DOMAIN seeds : seeds[j] = seeds[h] => j = h
                  /\ IF out.before.randomize_seeds
                     THEN Range(seeds) \subseteq 1..(out.before.max_seeds - 1)
                     ELSE Range(seeds) = 0..(out.before.n_exp - 1)

\* C6, its case: random seeds for two records, as many seeds as there are to
\* draw from (max_seeds = n_exp + 1), not drawn in increasing order
C6_Witness ==
    /\ op = "run"
    /\ out.local /\ ~out.test
    /\ out.before.randomize_seeds
    /\ out.before.n_exp = MaxNExp
    /\ out.before.max_seeds = out.before.n_exp + 1
    /\ Len(out.before.experiment_list) = 2
    /\ seeds_of_record(out, 2)[1] > seeds_of_record(out, 2)[2]

\* C10 as claimed: once every array index of the submitted job has run, the
\* seeds run are 0..n_exp-1, each exactly once.
C10_ArraySeeds ==
    (op = "array_task"
     /\ array_done = out.script[1].array_first..out.script[1].array_last) =>
        /\ Len(array_ran) = out.before.n_exp
        /\ Range(array_ran) = 0..(out.before.n_exp - 1)

\* the words the claim gives one entry: none for False, the bare flag for
\* True, the flag and the value otherwise; the flag keeps the key's
\* underscores or has '-' for each
entry_words(e, use_underscore_argparse) ==
    LET flag == <<"-", "-">> \o [i \in DOMAIN e.k |->
                    IF e.k[i] = "_" /\ ~use_underscore_argparse THEN "-" ELSE e.k[i]]
    IN  IF e.v = BoolV(FALSE) THEN <<>>
        ELSE IF e.v = BoolV(TRUE) THEN <<flag>>
        ELSE <<flag, py_str(e.v)>>

\* the text of one entry: its words, each followed by a space
entry_text(e, use_underscore_argparse) ==
    LET words == entry_words(e, use_underscore_argparse)
    IN  Concat([i \in DOMAIN words |-> words[i] \o <<" ">>])

\* C8: the command line _convert_to_command_line returns consists, entry by
\* entry in insertion order, of nothing for a False value, the bare flag
\* --<key> for True, and --<key> <value> for a value that is no bool; the
\* key keeps its underscores under use_underscore_argparse and has '-' for
\* every '_' otherwise.
C8_CommandLineText ==
    op = "_convert_to_command_line" =>
        ret = Concat([i \in DOMAIN arg.exp |->
                         entry_text(arg.exp[i], arg.use_underscore_argparse)])

\* C8, its case: a False value first, then b_c with an int, dashes asked for
C8_Witness ==
    /\ op = "_convert_to_command_line"
    /\ ~arg.use_underscore_argparse
    /\ Len(arg.exp) = 2
    /\ arg.exp[1].v = BoolV(FALSE)
    /\ arg.exp[2] = Entry(K_b_c, IntV(MaxIntValue))
    /\ shell_words(ret) = <<<<"-", "-", "b", "-", "c">>, int_str(MaxIntValue)>>

\* the segments of a path: what lies between its separators
path_segments(path) == SelectSeq(str_split(path, "/"), LAMBDA w : w # <<>>)

\* the path is results_dir followed by one segment <key>_<value> per entry
\* of exp, in insertion order, and by str(seed) when a seed is given
dir_per_entry(path, results_dir, exp, seed) ==
    /\ StartsWith(path, results_dir)
    /\ path_segments(path)
          = path_segments(results_dir)
            \o [i \in DOMAIN exp |-> exp[i].k \o <<"_">> \o py_str(exp[i].v)]
            \o (IF seed = None THEN <<>> ELSE <<int_str(seed[1])>>)

\* C9 as claimed: for every record and root, _generate_results_dir returns
\* the root followed by exactly len(p) segments <key>_<value>, in insertion
\* order, plus str(seed) when a seed is given.
C9_DirPerEntry ==
    op = "_generate_results_dir" =>
        dir_per_entry(ret, arg.results_dir, arg.exp, arg.seed)

\* no entry's key or value, as text, holds a path separator
separator_free(exp) ==
    \A i \in DOMAIN exp : "/" \notin Range(exp[i].k) \cup Range(py_str(exp[i].v))

\* C9, amended: the same for every record whose keys and values, as text,
\* hold no '/'.
C9_DirPerEntrySeparatorFree ==
    (op = "_generate_results_dir" /\ separator_free(arg.exp)) =>
        dir_per_entry(ret, arg.results_dir, arg.exp, arg.seed)

\* C9, its case: two entries, a bool and a str, under the launcher's local
\* directory, with a seed
C9_Witness ==
    /\ op = "_generate_results_dir"
    /\ separator_free(arg.exp)
    /\ arg.results_dir = _exp_dir_local
    /\ arg.seed = Some(MaxIntValue)
    /\ Len(arg.exp) = 2
    /\ arg.exp[1].v = BoolV(TRUE)
    /\ arg.exp[2].v = StrV(<<"p">>)
    /\ Len(path_segments(ret)) = Len(path_segments(arg.results_dir)) + 3

====
